---- MODULE Spec2Model ----
(***************************************************************************)
(* A model of qmlutil/xml.py: the serialization pre-processors             *)
(* (ignore_null, Rounder), the deserialization post-processor              *)
(* (SimpleTyping) and the schema-driven TypeExtractor (flatten, _gettype,  *)
(* gentypes, entype, extract_typed).                                       *)
(*                                                                         *)
(* Python values are tagged records.  A Python text that the code takes    *)
(* apart (split, strip, startswith, regular expressions, int(), float())   *)
(* is a sequence of one-character strings; a text that the code only       *)
(* compares for equality (the keys and field names seen by Rounder) is a   *)
(* TLA+ string.  An exception leaving a call is recorded in the call's     *)
(* "exc" field ("" when the call returned).                                *)
(***************************************************************************)
EXTENDS Integers, Sequences, FiniteSets, TLC

VARIABLES qml, XSDtypes, PYtypes, call

vars == <<qml, XSDtypes, PYtypes, call>>

(***************************************************************************)
(* Python values                                                           *)
(***************************************************************************)
NoneV == [t |-> "none"]
Str(s) == [t |-> "str", s |-> s]
Int_(i) == [t |-> "int", i |-> i]
\* a float: the finite value m * 10^e, m not divisible by 10 (0 is m = 0,
\* e = 0), standing for the double nearest to it (one double per decimal
\* while the decimal has at most 15 significant digits and lies in the
\* normal range); or, with sp, a value that is no such decimal: "-0"
\* (negative zero), "inf", "-inf", "nan"
Float(m, e) == [t |-> "float", m |-> m, e |-> e, sp |-> ""]
FloatSpecial(sp) == [t |-> "float", m |-> 0, e |-> 0, sp |-> sp]
Bool(b) == [t |-> "bool", b |-> b]
\* a dict with insertion-ordered items [k, v]; a list
Dict(items) == [t |-> "dict", items |-> items]
List(items) == [t |-> "list", items |-> items]
Item(k, v) == [k |-> k, v |-> v]
\* a (key, value) tuple returned by a processor
Pair(k, v) == [t |-> "tuple", k |-> k, v |-> v]

RECURSIVE Pow10(_)
Pow10(n) == IF n <= 0 THEN 1 ELSE 10 * Pow10(n - 1)

Abs(x) == IF x < 0 THEN 0 - x ELSE x

\* the number of decimal digits of a >= 0
RECURSIVE DecDigits(_)
DecDigits(a) == IF a < 10 THEN 1 ELSE 1 + DecDigits(a \div 10)

RECURSIVE NormFloat(_, _)
NormFloat(m, e) ==
    IF m = 0 THEN Float(0, 0)
    ELSE IF m % 10 = 0 THEN NormFloat(m \div 10, e + 1)
    ELSE Float(m, e)

(***************************************************************************)
(* Python str operations                                                   *)
(***************************************************************************)
\* A text is a sequence of characters; a character of ASCII is written as
\* itself (the vertical tab too, which has no escape), one beyond ASCII by
\* its code point, as "U+00A0".
AsciiDigits == <<"0", "1", "2", "3", "4", "5", "6", "7", "8", "9">>
\* the decimal digits of another script (category Nd), here ARABIC-INDIC
\* DIGIT ZERO to NINE: \d of a str pattern matches them, and int() and
\* float() read them as the digits 0 to 9.  The digits of the other scripts
\* behave alike.
OtherDigits ==
    <<"U+0660", "U+0661", "U+0662", "U+0663", "U+0664", "U+0665", "U+0666", "U+0667",
      "U+0668", "U+0669">>
ZeroChars == {AsciiDigits[1], OtherDigits[1]}
Digits == {AsciiDigits[i] : i \in 1..10} \cup {OtherDigits[i] : i \in 1..10}
\* the whitespace int() and float() drop around a text: space, \t, \n, \r,
\* \f, the vertical tab, and the Unicode spaces beyond ASCII (the
\* separators U+001C to U+001F, which str.strip() drops, are not among them)
Whitespace ==
    {" ", "\t", "\n", "\r", "\f", "",
     "U+0085", "U+00A0", "U+1680", "U+2000", "U+2001", "U+2002", "U+2003", "U+2004",
     "U+2005", "U+2006", "U+2007", "U+2008", "U+2009", "U+200A", "U+2028", "U+2029",
     "U+202F", "U+205F", "U+3000"}

DigitVal(c) == CHOOSE d \in 0..9 : c \in {AsciiDigits[d + 1], OtherDigits[d + 1]}

\* s.startswith(p)
StartsWith(s, p) == Len(s) >= Len(p) /\ SubSeq(s, 1, Len(p)) = p

\* s.lstrip(chars): drops every leading character that is in the set chars
LStrip(s, chars) ==
    LET keep == {i \in 1..Len(s) : s[i] \notin chars}
    IN  IF keep = {} THEN <<>>
        ELSE SubSeq(s, CHOOSE i \in keep : \A j \in keep : i <= j, Len(s))

\* s.rstrip(chars)
RStrip(s, chars) ==
    LET keep == {i \in 1..Len(s) : s[i] \notin chars}
    IN  IF keep = {} THEN <<>>
        ELSE SubSeq(s, 1, CHOOSE i \in keep : \A j \in keep : i >= j)

\* s.strip(chars)
Strip(s, chars) == RStrip(LStrip(s, chars), chars)

\* s.split(d) for a one-character delimiter: always at least one segment
RECURSIVE Split(_, _)
Split(s, d) ==
    LET at == {i \in 1..Len(s) : s[i] = d}
    IN  IF at = {} THEN <<s>>
        ELSE LET i == CHOOSE i \in at : \A j \in at : i <= j
             IN  <<SubSeq(s, 1, i - 1)>> \o Split(SubSeq(s, i + 1, Len(s)), d)

\* d.join(parts)
RECURSIVE Join(_, _)
Join(d, parts) ==
    IF Len(parts) = 0 THEN <<>>
    ELSE IF Len(parts) = 1 THEN parts[1]
    ELSE parts[1] \o <<d>> \o Join(d, Tail(parts))

(***************************************************************************)
(* int(text) and float(text)                                               *)
(***************************************************************************)
\* a run of digits in which single underscores may separate digits
IsDigitRun(s) ==
    /\ Len(s) >= 1
    /\ s[1] \in Digits
    /\ s[Len(s)] \in Digits
    /\ \A i \in 1..Len(s) : s[i] \in Digits \cup {"_"}
    /\ \A i \in 1..(Len(s) - 1) : ~(s[i] = "_" /\ s[i + 1] = "_")

\* a run of digits without underscores, as the regular expressions' \d+
IsPlainDigits(s) == Len(s) >= 1 /\ \A i \in 1..Len(s) : s[i] \in Digits

\* the value of a digit run: of its digits from the first that is not zero
RECURSIVE DigitsVal(_, _)
DigitsVal(s, i) ==
    IF i = 0 THEN 0
    ELSE IF s[i] = "_" THEN DigitsVal(s, i - 1)
    ELSE 10 * DigitsVal(s, i - 1) + DigitVal(s[i])
DigitRunVal(s) ==
    CHOOSE n \in {DigitsVal(t, Len(t)) : t \in {LStrip(s, ZeroChars \cup {"_"})}} : TRUE

\* the number of digits of a digit run (underscores not counted)
NumDigits(s) == Cardinality({i \in 1..Len(s) : s[i] \in Digits})

HasSign(s) == Len(s) >= 1 /\ s[1] \in {"-", "+"}
Unsigned(s) == IF HasSign(s) THEN Tail(s) ELSE s
SignOf(s) == IF Len(s) >= 1 /\ s[1] = "-" THEN 0 - 1 ELSE 1

\* the most digits int() converts (sys.get_int_max_str_digits() as the
\* interpreter starts)
MaxIntDigits == 4300
\* int(text): surrounding whitespace is dropped, then an optional sign and a
\* digit run of at most 4300 digits (the interpreter's default limit for the
\* conversion, leading zeros counted); anything else raises ValueError
IntOk(text) ==
    LET u == Unsigned(Strip(text, Whitespace))
    IN  IsDigitRun(u) /\ NumDigits(u) <= MaxIntDigits
IntVal(text) ==
    LET s == Strip(text, Whitespace)
    IN  SignOf(s) * DigitRunVal(Unsigned(s))

\* the mantissa part of a float literal, without sign: D, D., D.D or .D
IsMantissa(s) ==
    LET at == {i \in 1..Len(s) : s[i] = "."}
    IN  IF at = {} THEN IsDigitRun(s)
        ELSE \E d \in at :
                \/ IsDigitRun(SubSeq(s, 1, d - 1))
                     /\ (d = Len(s) \/ IsDigitRun(SubSeq(s, d + 1, Len(s))))
                \/ d = 1 /\ IsDigitRun(SubSeq(s, 2, Len(s)))

IsExponent(s) == IsDigitRun(Unsigned(s))

\* the position of the exponent marker, 0 when there is none
ExpAt(s) ==
    LET at == {i \in 1..Len(s) : s[i] \in {"e", "E"}}
    IN  IF at = {} THEN 0 ELSE CHOOSE i \in at : \A j \in at : i <= j

IsFloatBody(s) ==
    LET x == ExpAt(s)
    IN  IF x = 0 THEN IsMantissa(s)
        ELSE IsMantissa(SubSeq(s, 1, x - 1)) /\ IsExponent(SubSeq(s, x + 1, Len(s)))

\* the letters of the special spellings, in lower case
Lower(c) ==
    CASE c = "I" -> "i" [] c = "N" -> "n" [] c = "F" -> "f" [] c = "T" -> "t"
      [] c = "Y" -> "y" [] c = "A" -> "a" [] OTHER -> c
LowerText(s) == [i \in 1..Len(s) |-> Lower(s[i])]
IsInfText(u) ==
    LowerText(u) \in {<<"i", "n", "f">>, <<"i", "n", "f", "i", "n", "i", "t", "y">>}
IsNanText(u) == LowerText(u) = <<"n", "a", "n">>

\* float(text): surrounding whitespace is dropped, then an optional sign and
\* either a mantissa with an optional exponent or, in any case of letters,
\* inf, infinity or nan
FloatOk(text) ==
    LET u == Unsigned(Strip(text, Whitespace))
    IN  IsFloatBody(u) \/ IsInfText(u) \/ IsNanText(u)

DotAt(s) ==
    LET at == {i \in 1..Len(s) : s[i] = "."}
    IN  IF at = {} THEN 0 ELSE CHOOSE i \in at : TRUE

(***************************************************************************)
(* Natural numbers of any size, for the places where float() and round()  *)
(* look at more bits than an integer here has: the digits in base 2^15,    *)
(* least significant first, without a leading zero digit (0 is << >>).     *)
(* An intermediate result is named by a bound variable, x \in {e}, where   *)
(* it is used more than once, so that it is computed once.                 *)
(***************************************************************************)
LimbBase == 32768

RECURSIVE Pow2(_)
Pow2(n) == IF n <= 0 THEN 1 ELSE 2 * Pow2(n - 1)

RECURSIVE BitLen(_)
BitLen(n) == IF n = 0 THEN 0 ELSE 1 + BitLen(n \div 2)

RECURSIVE BigOf(_)
BigOf(n) == IF n = 0 THEN << >> ELSE <<n % LimbBase>> \o BigOf(n \div LimbBase)

\* x without its leading zero digits
BigNorm(x) ==
    LET nz == {i \in 1..Len(x) : x[i] # 0}
    IN  IF nz = {} THEN << >>
        ELSE SubSeq(x, 1, CHOOSE i \in nz : \A j \in nz : j <= i)

\* the digit at place i (0 beyond the digits of x)
BigAt(x, i) == IF i >= 1 /\ i <= Len(x) THEN x[i] ELSE 0

\* x * c for 0 <= c < 2^15.  Place i receives the low part of its own
\* product and the high part of the product below it, s; a carry leaves a
\* place when the nearest place at or below it whose s is not 2^15 - 1 has
\* s >= 2^15
BigMulSum(x, c, i) ==
    ((BigAt(x, i) * c) % LimbBase) + ((BigAt(x, i - 1) * c) \div LimbBase)
BigMulCarry(x, c, i) ==
    IF i < 1 THEN 0
    ELSE IF BigMulSum(x, c, i) # LimbBase - 1
         THEN IF BigMulSum(x, c, i) >= LimbBase THEN 1 ELSE 0
    ELSE LET js == {j \in 1..i : BigMulSum(x, c, j) # LimbBase - 1}
         IN  IF js = {} THEN 0
             ELSE IF BigMulSum(x, c, CHOOSE j \in js : \A l \in js : l <= j) >= LimbBase
                  THEN 1 ELSE 0
BigMulSmall(x, c) ==
    CHOOSE r \in
        {BigNorm(s) :
            s \in {<< >> \o [i \in 1..(Len(x) + 1) |->
                      (BigMulSum(x, c, i) + BigMulCarry(x, c, i - 1)) % LimbBase]}} : TRUE

\* x * 2^s
BigShl(x, s) ==
    IF Len(x) = 0 THEN << >>
    ELSE CHOOSE r \in {[i \in 1..(s \div 15) |-> 0] \o BigMulSmall(x, c) :
                          c \in {Pow2(s % 15)}} : TRUE

\* x * 5^12; x * 5^j, 24, 6 or 1 factors at a step
BigMulPow5x12(x) ==
    CHOOSE r \in {BigMulSmall(y, 15625) : y \in {BigMulSmall(x, 15625)}} : TRUE
RECURSIVE BigMulPow5(_, _)
BigMulPow5(x, j) ==
    IF j <= 0 THEN x
    ELSE IF j >= 24
         THEN CHOOSE r \in {BigMulPow5(z, j - 24) :
                               z \in {BigMulPow5x12(y) : y \in {BigMulPow5x12(x)}}} : TRUE
    ELSE IF j >= 6
         THEN CHOOSE r \in {BigMulPow5(y, j - 6) : y \in {BigMulSmall(x, 15625)}} : TRUE
    ELSE CHOOSE r \in {BigMulPow5(y, j - 1) : y \in {BigMulSmall(x, 5)}} : TRUE
\* 5^j, a * 5^j
BigPow5(j) == BigMulPow5(<<1>>, j)
BigTimesPow5(a, j) == CHOOSE r \in {BigMulPow5(x, j) : x \in {BigOf(a)}} : TRUE

\* -1, 0, 1 as x is below, equal to, above y
BigCmp(x, y) ==
    IF Len(x) # Len(y) THEN IF Len(x) < Len(y) THEN 0 - 1 ELSE 1
    ELSE LET diff == {i \in 1..Len(x) : x[i] # y[i]}
         IN  IF diff = {} THEN 0
             ELSE IF \E i \in diff : x[i] < y[i] /\ \A j \in diff : j <= i
                  THEN 0 - 1 ELSE 1

\* x - y for x >= y.  A borrow leaves a place when the nearest place at or
\* below it where the digits differ has the smaller digit in x
BigSubBorrow(x, y, i) ==
    IF i < 1 THEN 0
    ELSE IF x[i] # BigAt(y, i) THEN IF x[i] < BigAt(y, i) THEN 1 ELSE 0
    ELSE LET js == {j \in 1..i : x[j] # BigAt(y, j)}
         IN  IF js = {} THEN 0
             ELSE IF \E t \in js : x[t] < BigAt(y, t) /\ \A l \in js : l <= t
                  THEN 1 ELSE 0
BigSub(x, y) ==
    CHOOSE r \in
        {BigNorm(s) :
            s \in {<< >> \o [i \in 1..Len(x) |->
                      (x[i] - BigAt(y, i) - BigSubBorrow(x, y, i - 1) + LimbBase)
                          % LimbBase]}} : TRUE
BigAbsDiff(x, y) == IF BigCmp(x, y) >= 0 THEN BigSub(x, y) ELSE BigSub(y, x)

BigBitLen(x) == IF Len(x) = 0 THEN 0 ELSE 15 * (Len(x) - 1) + BitLen(x[Len(x)])
\* bit i of x (bit 0 the lowest); x % 2^s
BigBit(x, i) ==
    IF i \div 15 + 1 > Len(x) THEN 0 ELSE (x[i \div 15 + 1] \div Pow2(i % 15)) % 2
BigLow(x, s) ==
    IF s \div 15 >= Len(x) THEN x
    ELSE BigNorm(SubSeq(x, 1, s \div 15) \o <<x[s \div 15 + 1] % Pow2(s % 15)>>)

Min2(a, b) == IF a < b THEN a ELSE b

\* n divided by d > 0, the quotient below 2^(i + 1): the bits of the quotient
\* from bit i down, most significant first, after those already in q, and
\* the remainder.  A step takes the next w bits, up to six: they are the
\* largest c with c * dl <= n, dl being d * 2^(i + 1 - w)
BigDivFits(n, dl, c) == \E p \in {BigMulSmall(dl, c)} : BigCmp(p, n) <= 0
BigDivDigit(n, dl, w) ==
    CHOOSE c \in 0..(Pow2(w) - 1) :
        BigDivFits(n, dl, c) /\ (c = Pow2(w) - 1 \/ ~BigDivFits(n, dl, c + 1))
BigDivTake(n, i, q, w, c, p) ==
    [n |-> BigSub(n, p), i |-> i - w,
     q |-> q \o [l \in 1..w |-> (c \div Pow2(w - l)) % 2]]
BigDivStep(n, dl, i, q, w) ==
    CHOOSE st \in {BigDivTake(n, i, q, w, pr[1], pr[2]) :
                      pr \in {<<c, BigMulSmall(dl, c)>> :
                                 c \in {BigDivDigit(n, dl, w)}}} : TRUE
RECURSIVE BigDivBits(_, _, _, _)
BigDivBits(n, d, i, q) ==
    IF i < 0 THEN [q |-> q, r |-> n]
    ELSE CHOOSE dv \in
             {BigDivBits(st.n, d, st.i, st.q) :
                 st \in {BigDivStep(n, dl, i, q, Min2(6, i + 1)) :
                            dl \in {BigShl(d, i + 1 - Min2(6, i + 1))}}} : TRUE

\* the side of a rounding from what was dropped compared with a half, c,
\* and the last bit kept: -1 when the kept part is below, 1 above (a tie
\* goes to the even one)
TieSide(c, bit) ==
    IF c < 0 THEN 0 - 1 ELSE IF c > 0 THEN 1 ELSE IF bit = 0 THEN 0 - 1 ELSE 1

\* n / d rounded to the nearest integer, a tie to the even one, seen from
\* the division: -1 when the integer is below n / d, 0 on it, 1 above
DivSide(dv, d) ==
    IF Len(dv.r) = 0 THEN 0
    ELSE CHOOSE s \in {TieSide(c, dv.q[Len(dv.q)]) :
                          c \in {BigCmp(r2, d) : r2 \in {BigShl(dv.r, 1)}}} : TRUE

\* floor(log2(a / d)) for a, d > 0
BigLog2Floor(a, d) ==
    IF BigBitLen(d) >= BigBitLen(a)
    THEN IF \E x \in {BigShl(a, BigBitLen(d) - BigBitLen(a))} : BigCmp(x, d) >= 0
         THEN BigBitLen(a) - BigBitLen(d) ELSE BigBitLen(a) - BigBitLen(d) - 1
    ELSE IF \E y \in {BigShl(d, BigBitLen(a) - BigBitLen(d))} : BigCmp(a, y) >= 0
         THEN BigBitLen(a) - BigBitLen(d) ELSE BigBitLen(a) - BigBitLen(d) - 1

\* on which side of the decimal a * 10^e (a > 0, below the largest double)
\* the double nearest to it lies: -1 below, 0 on it, 1 above.
\* A whole number a * 5^e * 2^e is a double when N = a * 5^e has 53 bits at
\* most; with more, the double keeps the upper 53 and the bits dropped tell
\* the side.  A fraction a / (5^j * 2^j) is held as M * 2^-s, M the integer
\* nearest to a * 2^t / 5^j, with t giving M 53 bits or, when that takes
\* s = t + j beyond 1074 (a subnormal), t = 1074 - j; the division tells
\* the side.
BinarySideDropped(N, drop) ==
    CHOOSE s \in {IF Len(low) = 0 THEN 0 ELSE TieSide(BigCmp(low, half), BigBit(N, drop)) :
                     low \in {BigLow(N, drop)}, half \in {BigShl(<<1>>, drop - 1)}} : TRUE
BinarySideWhole(N) ==
    IF BigBitLen(N) <= 53 THEN 0 ELSE BinarySideDropped(N, BigBitLen(N) - 53)
BinarySideAt(n, D, t) ==
    IF t < 0 THEN 0 - 1
    ELSE CHOOSE s \in {DivSide(dv, D) :
                          dv \in {BigDivBits(x, D, 53, << >>) : x \in {BigShl(n, t)}}} : TRUE
BinarySideFraction(n, D, e) ==
    CHOOSE s \in {BinarySideAt(n, D, t) :
                     t \in {Min2(52 - BigLog2Floor(n, D), 1074 + e)}} : TRUE
BinarySide(a, e) ==
    IF e >= 0
    THEN CHOOSE s \in {BinarySideWhole(N) : N \in {BigTimesPow5(a, e)}} : TRUE
    ELSE CHOOSE s \in {BinarySideFraction(n, D, e) :
                          n \in {BigOf(a)}, D \in {BigPow5(0 - e)}} : TRUE

\* the number whose bits, most significant first, are q
RECURSIVE BitsValTo(_, _)
BitsValTo(q, i) == IF i = 0 THEN 0 ELSE 2 * BitsValTo(q, i - 1) + q[i]
BitsVal(q) == BitsValTo(q, Len(q))

\* the k for which the double nearest to the decimal a * 10^e, e < 0, below
\* 2^-1043, is k * 2^-1074: a * 2^(1074 + e) / 5^-e rounded to the nearest
\* integer, a tie to the even one
SubnormalRound(dv, D) == BitsVal(dv.q) + (IF DivSide(dv, D) > 0 THEN 1 ELSE 0)
SubnormalQuot(n, D, e) ==
    CHOOSE k \in {SubnormalRound(dv, D) :
                     dv \in {BigDivBits(x, D, 31, << >>) :
                                x \in {BigShl(n, 1074 + e)}}} : TRUE
SubnormalMultiple(a, e) ==
    CHOOSE k \in {SubnormalQuot(n, D, e) : n \in {BigOf(a)}, D \in {BigPow5(0 - e)}} : TRUE

\* the distance of c * 10^p from k * 2^-1074 in units of 10^p / 2^(1074 + p),
\* for -1074 <= p < 0, K being k * 5^-p
SubnormalDev(c, p, K) ==
    CHOOSE r \in {BigAbsDiff(x, K) : x \in {BigShl(BigOf(c), 1074 + p)}} : TRUE
\* the numbers c next to x = a * 10^e in units of 10^p, each with the
\* distance of c * 10^p from the double k * 2^-1074 that x is read as (the
\* decimals read as that double lie within 2^-1074 < 5 * 10^p of x)
SubnormalDevs(a, e, p, K) ==
    LET f == IF p - e >= DecDigits(a) THEN 0 ELSE a \div Pow10(p - e)
    IN  {<<c, SubnormalDev(c, p, K)>> : c \in {b \in (f - 6)..(f + 6) : b >= 1}}
\* those of them read as that double: less than half of 2^-1074 away, D
\* being 5^-p
SubnormalCands(ds, D) ==
    {x \in ds : \E twice \in {BigShl(x[2], 1)} : BigCmp(twice, D) < 0}
SubnormalCandsAt(k, a, e, p) ==
    CHOOSE cs \in {SubnormalCands(ds, D) :
                      ds \in {SubnormalDevs(a, e, p, K) : K \in {BigTimesPow5(k, 0 - p)}},
                      D \in {BigPow5(0 - p)}} : TRUE
SubnormalNearest(cs, p) ==
    CHOOSE f \in {NormFloat(x[1], p) :
                     x \in {x \in cs : \A o \in cs : BigCmp(x[2], o[2]) <= 0}} : TRUE

\* repr's decimal for the double k * 2^-1074: of the decimals read as that
\* double those with the fewest digits, and of these the nearest to it;
\* found from x = a * 10^e, one such decimal, going from one digit (p the
\* place of the last digit) to the digits of x
RECURSIVE SubnormalShortest(_, _, _, _)
SubnormalShortest(k, a, e, p) ==
    IF p < e \/ p < 0 - 324 THEN Float(a, e)
    ELSE CHOOSE f \in {IF cs = {} THEN SubnormalShortest(k, a, e, p - 1)
                       ELSE SubnormalNearest(cs, p) :
                          cs \in {SubnormalCandsAt(k, a, e, p)}} : TRUE

\* whether the decimal m * 10^e (m > 0 not divisible by 10) is read as an
\* infinity: it is at or above 2^1024 - 2^970 = 1.797693134862315807...e308
\* (told from the first ten digits); as a zero: at or below
\* 2^-1075 = 2.4703282292062327...e-324
DecimalOver(m, e) ==
    \/ DecDigits(m) + e - 1 > 308
    \/ /\ DecDigits(m) + e - 1 = 308
       /\ m > 1797693134 \div Pow10(10 - DecDigits(m))
DecimalUnder(m, e) ==
    \/ DecDigits(m) + e - 1 < 0 - 324
    \/ /\ DecDigits(m) + e - 1 = 0 - 324
       /\ (DecDigits(m) >= 10 \/ m <= 247032822 \div Pow10(9 - DecDigits(m)))

\* the double a decimal of magnitude m * 10^e (m >= 0) and sign sg is read
\* as: an infinity, a zero, or the finite double nearest to it, named by
\* the decimal repr gives it.  From 1e-314 up that is m * 10^e itself (the
\* decimals of up to ten digits are further apart than the doubles there,
\* so each names its own double); below, the doubles are the multiples of
\* 2^-1074 up to 2^31 of them, several decimals are read as one double, and
\* the decimal is the shortest of them
FloatSubnormal(sg, f) ==
    CHOOSE r \in
        {Float(sg * short.m, short.e) :
            short \in {SubnormalShortest(k, f.m, f.e, DecDigits(f.m) + f.e) :
                          k \in {SubnormalMultiple(f.m, f.e)}}} : TRUE
FloatOfNorm(sg, f) ==
    IF f.m = 0 THEN IF sg < 0 THEN FloatSpecial("-0") ELSE Float(0, 0)
    ELSE IF DecimalOver(f.m, f.e) THEN FloatSpecial(IF sg < 0 THEN "-inf" ELSE "inf")
    ELSE IF DecimalUnder(f.m, f.e) THEN IF sg < 0 THEN FloatSpecial("-0") ELSE Float(0, 0)
    ELSE IF DecDigits(f.m) + f.e - 1 <= 0 - 315 THEN FloatSubnormal(sg, f)
    ELSE Float(sg * f.m, f.e)
FloatOf(sg, m, e) ==
    CHOOSE r \in {FloatOfNorm(sg, f) : f \in {NormFloat(x, e) : x \in {m}}} : TRUE

IsDigitChar(c) == c \in Digits

\* the exponent float() applies: the value of the digits after the sign,
\* and 1100000000 in its place when they are more than nine without the
\* zeros before them (the conversion reads no further; nine digits stay
\* below that cut)
MaxAbsExp == 1100000000
ExponentVal(es) ==
    IF Len(LStrip(SelectSeq(Unsigned(es), IsDigitChar), ZeroChars)) > 9
    THEN SignOf(es) * MaxAbsExp
    ELSE SignOf(es) * DigitRunVal(Unsigned(es))

\* float(text) of a text float() accepts.  The digits of the mantissa
\* without the zeros before and after them and the exponent give the
\* magnitude, which decides for an infinity or a zero before the digits are
\* read as a number: core are those digits, e10 the place of the last
FloatOfCore(sg, core, e10) ==
    IF Len(core) = 0 THEN FloatOf(sg, 0, 0)
    ELSE IF Len(core) - 1 + e10 > 308 THEN FloatSpecial(IF sg < 0 THEN "-inf" ELSE "inf")
    ELSE IF Len(core) - 1 + e10 < 0 - 324 THEN FloatOf(sg, 0, 0)
    ELSE FloatOf(sg, DigitRunVal(core), e10)
FloatOfDigits(sg, digits, e) ==
    CHOOSE r \in
        {FloatOfCore(sg, pr[2], e + (Len(pr[1]) - Len(pr[2]))) :
            pr \in {<<lead, RStrip(lead, ZeroChars)>> :
                       lead \in {LStrip(digits, ZeroChars)}}} : TRUE
FloatOfBody(sg, u) ==
    LET x == ExpAt(u)
        mant == IF x = 0 THEN u ELSE SubSeq(u, 1, x - 1)
        ex == IF x = 0 THEN 0 ELSE ExponentVal(SubSeq(u, x + 1, Len(u)))
        d == DotAt(mant)
        ip == IF d = 0 THEN mant ELSE SubSeq(mant, 1, d - 1)
        fp == IF d = 0 THEN <<>> ELSE SubSeq(mant, d + 1, Len(mant))
    IN  CHOOSE r \in {FloatOfDigits(sg, pr[1], pr[2]) :
                         pr \in {<<SelectSeq(ip \o fp, IsDigitChar),
                                   ex - NumDigits(fp)>>}} : TRUE
FloatVal(text) ==
    CHOOSE r \in
        {IF IsNanText(u) THEN FloatSpecial("nan")
         ELSE IF IsInfText(u)
              THEN FloatSpecial(IF SignOf(Strip(text, Whitespace)) < 0 THEN "-inf" ELSE "inf")
         ELSE FloatOfBody(SignOf(Strip(text, Whitespace)), u) :
            u \in {Unsigned(Strip(text, Whitespace))}} : TRUE

\* type_(v) for the Python types the module uses, applied to a text:
\* [exc, v]
Construct(type_, text) ==
    CASE type_ = "int" ->
            IF IntOk(text) THEN [exc |-> "", v |-> Int_(IntVal(text))]
            ELSE [exc |-> "ValueError", v |-> Str(text)]
      [] type_ = "float" ->
            IF FloatOk(text) THEN [exc |-> "", v |-> FloatVal(text)]
            ELSE [exc |-> "ValueError", v |-> Str(text)]
      [] type_ = "bool" -> [exc |-> "", v |-> Bool(Len(text) > 0)]
      [] type_ = "str" -> [exc |-> "", v |-> Str(text)]

(***************************************************************************)
(* The record of the last call: its operation, arguments, return value and *)
(* the exception that left it ("" when it returned)                        *)
(***************************************************************************)
Idle == [op |-> "none"]

(***************************************************************************)
(* POSTPROCESSOR: SimpleTyping                                             *)
(***************************************************************************)
\* re.compile(r"[-+]?\d+") matches the whole of p
ReIntFull(p) == IsPlainDigits(Unsigned(p))

\* (\d+(\.\d*)?|\.\d+) matches the whole of p
ReMantissaFull(p) ==
    \E i \in 0..Len(p) :
        LET ip == SubSeq(p, 1, i)
            rest == SubSeq(p, i + 1, Len(p))
        IN  \/ /\ IsPlainDigits(ip)
               /\ \/ rest = <<>>
                  \/ /\ Len(rest) >= 1 /\ rest[1] = "."
                     /\ \A j \in 2..Len(rest) : rest[j] \in Digits
            \/ /\ ip = <<>>
               /\ Len(rest) >= 2 /\ rest[1] = "." /\ IsPlainDigits(Tail(rest))

\* re.compile(r"[-+]?(\d+(\.\d*)?|\.\d+)([eE][-+]?\d+)?") matches the whole of p
ReFloatFull(p) ==
    LET u == Unsigned(p)
        x == ExpAt(u)
    IN  IF x = 0 THEN ReMantissaFull(u)
        ELSE /\ ReMantissaFull(SubSeq(u, 1, x - 1))
             /\ IsPlainDigits(Unsigned(SubSeq(u, x + 1, Len(u))))

\* exp.match(v): the pattern matches some prefix of the text
ReMatch(exp, v) ==
    \E n \in 0..Len(v) :
        IF exp = "INT" THEN ReIntFull(SubSeq(v, 1, n))
        ELSE ReFloatFull(SubSeq(v, 1, n))

regex_types_swapped ==
    << [exp |-> "FLOAT", type_ |-> "float"], [exp |-> "INT", type_ |-> "int"] >>

\* SimpleTyping.regex_types: the ordered pattern table
regex_types ==
    << [exp |-> "INT", type_ |-> "int"], [exp |-> "FLOAT", type_ |-> "float"] >>

\* SimpleTyping.skip_keys
skip_keys == {}

\* the loop over regex_types: the first pattern that matches and whose type
\* constructs returns; an exception (a value that is no text, a text the
\* type rejects) is swallowed and the next pattern is tried
RECURSIVE TryTypes(_, _, _)
TryTypes(table, k, v) ==
    IF Len(table) = 0 THEN Pair(k, v)
    ELSE IF v.t # "str" THEN TryTypes(Tail(table), k, v)
    ELSE IF ReMatch(table[1].exp, v.s)
              /\ Construct(table[1].type_, v.s).exc = ""
         THEN Pair(k, Construct(table[1].type_, v.s).v)
    ELSE TryTypes(Tail(table), k, v)

\* SimpleTyping.__call__(path, k, v)
SimpleTyping_call(path, k, v) ==
    IF StartsWith(k, <<"@">>) \/ k = <<"#", "t", "e", "x", "t">> \/ k \in skip_keys
    THEN Pair(k, v)
    ELSE TryTypes(regex_types, k, v)

MaxTextLen == 4
TextAlphabet == {"0", "1", "-", "+", ".", "e", "x", " ", "_", "U+00A0", "U+0661"}
TextsUpTo(len) == UNION {[1..n -> TextAlphabet] : n \in 0..len}
\* texts at the edges of the conversions: digit runs at and beyond the 4300
\* digits int() converts (the zeros, whose value is 0, and ones), and
\* numbers beyond the largest double, below the smallest (one with an
\* exponent of seven digits), and between two of the smallest
EdgeTexts ==
    {[i \in 1..MaxIntDigits |-> "0"], [i \in 1..(MaxIntDigits + 1) |-> "0"],
     [i \in 1..(MaxIntDigits + 1) |-> "1"],
     <<"3", "e", "-", "3", "2", "4">>, <<"9", "9", "e", "-", "3", "2", "5">>,
     <<"1", "2", "3", "4", "5", "e", "-", "3", "2", "4">>,
     <<"2", "e", "3", "0", "8">>, <<"1", "e", "-", "1", "2", "3", "4", "5", "6", "7">>,
     <<"-", "1", "e", "-", "4", "0", "0">>}
PostKeys == {<<"k">>, <<"@", "i", "d">>, <<"#", "t", "e", "x", "t">>}
PostValues(len) == {Str(s) : s \in TextsUpTo(len) \cup EdgeTexts} \cup {NoneV}

EmptyMap == [x \in {} |-> NoneV]

\* a call that has been set up and not yet made
Pending(fn, k, v) == [op |-> "pending", fn |-> fn, k |-> k, v |-> v]

CallSimpleTyping ==
    /\ call.op = "pending"
    /\ call.fn = "SimpleTyping"
    /\ call' = [op |-> "SimpleTyping", k |-> call.k, v |-> call.v, exc |-> "",
                ret |-> SimpleTyping_call(<<>>, call.k, call.v)]
    /\ UNCHANGED <<qml, XSDtypes, PYtypes>>

TypingInit ==
    /\ qml = NoneV
    /\ XSDtypes = EmptyMap
    /\ PYtypes = EmptyMap
    /\ call \in {Pending("SimpleTyping", k, v) : k \in PostKeys, v \in PostValues(MaxTextLen)}

TypingNext == CallSimpleTyping

TypingSpec == TypingInit /\ [][TypingNext]_vars

(***************************************************************************)
(* PREPROCESSORS: ignore_null and Rounder                                  *)
(*                                                                         *)
(* The nodes Rounder sees are dicts read by field name only: [t |-> "map", *)
(* f |-> a function from field names to values].                           *)
(***************************************************************************)
Map(f) == [t |-> "map", f |-> f]
Get(v, k) == IF k \in DOMAIN v.f THEN v.f[k] ELSE NoneV
SetField(v, k, x) ==
    Map([g \in DOMAIN v.f \cup {k} |-> IF g = k THEN x ELSE v.f[g]])
Pop(v, k) == Map([g \in DOMAIN v.f \ {k} |-> v.f[g]])

Ok(v) == [exc |-> "", v |-> v]
Raise(e, v) == [exc |-> e, v |-> v]

\* ignore_null(k, v)
ignore_null(k, v) == IF v.t = "none" THEN NoneV ELSE Pair(k, v)

\* the truth value of x
Truthy(x) ==
    CASE x.t = "none" -> FALSE
      [] x.t = "bool" -> x.b
      [] x.t = "int" -> x.i # 0
      [] x.t = "float" -> x.m # 0 \/ x.sp \in {"inf", "-inf", "nan"}
      [] x.t = "str" -> x.s # ""
      [] x.t = "map" -> DOMAIN x.f # {}
      [] x.t \in {"list", "dict"} -> Len(x.items) # 0

RECURSIVE Zeros(_)
Zeros(n) == IF n <= 0 THEN "" ELSE "0" \o Zeros(n - 1)
\* the digits of a, with leading zeros up to the given width
ZeroPad(a, width) == Zeros(width - DecDigits(a)) \o ToString(a)

\* repr of a float: the digits of the shortest decimal that names it, in
\* positional notation while the decimal point falls within -4 < decpt <= 16
\* and in exponent notation otherwise
FloatRepr(x) ==
    IF x.sp # "" THEN IF x.sp = "-0" THEN "-0.0" ELSE x.sp
    ELSE IF x.m = 0 THEN "0.0"
    ELSE LET a == Abs(x.m)
             d == DecDigits(a)
             decpt == d + x.e
             ex == decpt - 1
             fixed ==
                 IF decpt <= 0 THEN "0." \o Zeros(0 - decpt) \o ToString(a)
                 ELSE IF x.e >= 0 THEN ToString(a) \o Zeros(x.e) \o ".0"
                 ELSE ToString(a \div Pow10(0 - x.e)) \o "."
                          \o ZeroPad(a % Pow10(0 - x.e), 0 - x.e)
             sci ==
                 ToString(a \div Pow10(d - 1))
                     \o (IF d > 1 THEN "." \o ZeroPad(a % Pow10(d - 1), d - 1) ELSE "")
                     \o "e" \o (IF ex < 0 THEN "-" ELSE "+")
                     \o (IF Abs(ex) < 10 THEN "0" ELSE "") \o ToString(Abs(ex))
         IN  (IF x.m < 0 THEN "-" ELSE "")
                 \o (IF decpt > 16 \/ decpt < 0 - 3 THEN sci ELSE fixed)

\* str(x) of a scalar.  (str of a dict or a list spells its entries in
\* insertion order, which a node read by field name does not keep: not
\* defined here.)
PyStr(x) ==
    CASE x.t = "str" -> x
      [] x.t = "int" -> Str(ToString(x.i))
      [] x.t = "bool" -> Str(IF x.b THEN "True" ELSE "False")
      [] x.t = "none" -> Str("None")
      [] x.t = "float" -> Str(FloatRepr(x))

DivFloor(a, b) == a \div b

\* a / b (a >= 0, b > 0) rounded to the nearest integer, a tie to the even one
DivHalfEven(a, b) ==
    LET q == a \div b
        r == a % b
    IN  IF 2 * r < b THEN q
        ELSE IF 2 * r > b THEN q + 1
        ELSE IF q % 2 = 0 THEN q ELSE q + 1

\* the magnitude of round(v, n) in units of 10^-n, for a finite float v with
\* digits below that place.  round() rounds the value the double really
\* holds: a decimal tie goes down when the double is below the decimal, up
\* when it is above, and to the even neighbour only when the double holds
\* the tie exactly; a value below a tenth of the unit goes to zero
RoundUnits(v, n) ==
    LET a == Abs(v.m)
        k == 0 - n - v.e
        b == Pow10(k)
    IN  IF k > DecDigits(a) \/ k >= 10 THEN 0
        ELSE IF 2 * (a % b) # b THEN DivHalfEven(a, b)
        ELSE CHOOSE u \in {IF side < 0 THEN a \div b
                           ELSE IF side > 0 THEN a \div b + 1
                           ELSE DivHalfEven(a, b) :
                              side \in {BinarySide(a, v.e)}} : TRUE

\* round(v, n) raises OverflowError: the rounded value is beyond the doubles
RoundOverflows(v, n) ==
    /\ v.t = "float" /\ v.sp = "" /\ v.e < 0 - n
    /\ \E f \in {NormFloat(u, 0 - n) : u \in {RoundUnits(v, n)}} :
           f.m # 0 /\ DecimalOver(f.m, f.e)

\* round(v, n) of a number, when it raises nothing.  An int stays an int
\* (unchanged for n >= 0) and rounds half to even.  A float stays a float:
\* unchanged when it has no digits below the place (an infinity, a nan and
\* a zero too), else the double read from the rounded decimal, a negative
\* number rounded to zero being -0.0
PyRound(v, n) ==
    IF v.t = "int"
    THEN IF n >= 0 THEN v
         ELSE IF 0 - n > DecDigits(Abs(v.i)) \/ 0 - n >= 10 THEN Int_(0)
         ELSE LET sg == IF v.i < 0 THEN 0 - 1 ELSE 1
              IN  Int_(sg * DivHalfEven(Abs(v.i), Pow10(0 - n)) * Pow10(0 - n))
    ELSE IF v.sp # "" \/ v.e >= 0 - n THEN v
         ELSE FloatOf((IF v.m < 0 THEN 0 - 1 ELSE 1), RoundUnits(v, n), 0 - n)

\* Rounder._round(dict_, k, n), the dict being changed in place: [exc, v].
\* A bool is an int to round(), and comes back as the int 1 or 0; an
\* exception of round() leaves the dict as it was.
Rounder_round(dict_, k, n) ==
    IF dict_.t # "map" THEN Raise("AttributeError", dict_)
    ELSE LET v == Get(dict_, k)
         IN  IF v.t = "none" THEN Ok(dict_)
             ELSE IF v.t = "bool"
                  THEN Ok(SetField(dict_, k, PyRound(Int_(IF v.b THEN 1 ELSE 0), n)))
             ELSE IF v.t \notin {"int", "float"} THEN Raise("TypeError", dict_)
             ELSE IF RoundOverflows(v, n) THEN Raise("OverflowError", dict_)
             ELSE Ok(SetField(dict_, k, PyRound(v, n)))

\* the if/elif chain of Rounder.__call__: the _round calls made for key k
RoundingRules(k) ==
    CASE k = "depth" -> << <<"value", 0 - 2>>, <<"uncertainty", 0 - 2>> >>
      [] k = "latitude" -> << <<"uncertainty", 4>> >>
      [] k = "longitude" -> << <<"uncertainty", 4>> >>
      [] k = "time" -> << <<"uncertainty", 6>> >>
      [] k = "originUncertainty" ->
            << <<"horizontalUncertainty", 0 - 1>>,
               <<"minHorizontalUncertainty", 0 - 1>>,
               <<"maxHorizontalUncertainty", 0 - 1>> >>
      [] k = "mag" -> << <<"value", 1>>, <<"uncertainty", 2>> >>
      [] OTHER -> << >>

\* the _round calls in order; the first exception ends them
RECURSIVE RoundAll(_, _)
RoundAll(v, rules) ==
    IF Len(rules) = 0 THEN Ok(v)
    ELSE LET r == Rounder_round(v, rules[1][1], rules[1][2])
         IN  IF r.exc # "" THEN r ELSE RoundAll(r.v, Tail(rules))

\* [p for p in v if p.get('phase') is not None]
RECURSIVE FilterPhase(_)
FilterPhase(items) ==
    IF Len(items) = 0 THEN << >>
    ELSE IF Get(items[1], "phase").t # "none"
         THEN <<items[1]>> \o FilterPhase(Tail(items))
         ELSE FilterPhase(Tail(items))

\* lines 219-221: the nodalPlanes attribute, v.get on whatever v is
RounderNodal(k, v) ==
    IF k # "nodalPlanes" THEN Ok(v)
    ELSE IF v.t # "map" THEN Raise("AttributeError", v)
    ELSE IF Truthy(Get(v, "@preferredPlane"))
         THEN Ok(SetField(v, "@preferredPlane", PyStr(Get(v, "@preferredPlane"))))
         ELSE Ok(v)

\* lines 223-225: v.pop('#text') with no default
RounderWaveform(k, v) ==
    IF k # "waveformID" THEN Ok(v)
    ELSE IF v.t = "none" THEN Raise("AttributeError", v)
    ELSE IF v.t = "list" THEN Raise("TypeError", v)
    ELSE IF "#text" \notin DOMAIN v.f THEN Raise("KeyError", v)
    ELSE Ok(Pop(v, "#text"))

\* lines 233-234
RounderArrival(k, v) ==
    IF k = "arrival" /\ v.t = "list" THEN List(FilterPhase(v.items)) ELSE v

\* Rounder.__call__(k, v): [exc, ret]
Rounder_call(k, v) ==
    LET a == RounderNodal(k, v)
    IN  IF a.exc # "" THEN [exc |-> a.exc, ret |-> NoneV]
        ELSE LET b == RounderWaveform(k, a.v)
             IN  IF b.exc # "" THEN [exc |-> b.exc, ret |-> NoneV]
                 ELSE IF b.v.t = "none" THEN [exc |-> "", ret |-> NoneV]
                 ELSE LET c == RoundAll(RounderArrival(k, b.v), RoundingRules(k))
                      IN  IF c.exc # "" THEN [exc |-> c.exc, ret |-> NoneV]
                          ELSE [exc |-> "", ret |-> Pair(k, c.v)]

\* the inputs of the preprocessors
PreKeys ==
    {"depth", "latitude", "longitude", "time", "originUncertainty", "mag",
     "nodalPlanes", "waveformID", "arrival", "comment"}
\* 1234, 1250, 1234.56, 78.9, 2.25, 0.125, 0.00012, 0.0000012, whose ties
\* fall on values a double holds exactly; 0.15 and 0.45, ties at one place
\* that the double holds from below and from above; True; and an infinity
RNums ==
    {Int_(1234), Int_(1250), Float(123456, 0 - 2), Float(789, 0 - 1),
     Float(225, 0 - 2), Float(125, 0 - 3), Float(12, 0 - 5), Float(12, 0 - 7),
     Float(15, 0 - 2), Float(45, 0 - 2), Bool(TRUE), FloatSpecial("inf")}
RVals == RNums \cup {NoneV, Str("x")}
MapsOver(fields, vals) ==
    UNION {{Map(f) : f \in [d -> vals]} : d \in SUBSET fields}
MaxArrivals == 2
Arrivals == MapsOver({"phase", "distance"}, {Str("P"), NoneV})
PreValues(len) ==
    {NoneV}
      \cup MapsOver({"value", "uncertainty", "confidenceLevel"}, RVals)
      \cup MapsOver({"horizontalUncertainty", "minHorizontalUncertainty",
                     "maxHorizontalUncertainty"}, RVals)
      \cup MapsOver({"#text", "@networkCode"}, {Str("NN")})
      \cup MapsOver({"@preferredPlane", "strike"},
                     {Int_(1), Int_(0), Str("2"), Float(15, 0 - 1), Bool(TRUE), Bool(FALSE)})
      \cup UNION {{List(l) : l \in [1..n -> Arrivals]} : n \in 0..len}

CallIgnoreNull ==
    /\ call.op = "pending"
    /\ call.fn = "ignore_null"
    /\ call' = [op |-> "ignore_null", k |-> call.k, v |-> call.v, exc |-> "",
                ret |-> ignore_null(call.k, call.v)]
    /\ UNCHANGED <<qml, XSDtypes, PYtypes>>

CallRounder ==
    /\ call.op = "pending"
    /\ call.fn = "Rounder"
    /\ call' = [op |-> "Rounder", k |-> call.k, v |-> call.v,
                exc |-> Rounder_call(call.k, call.v).exc,
                ret |-> Rounder_call(call.k, call.v).ret]
    /\ UNCHANGED <<qml, XSDtypes, PYtypes>>

PreInit ==
    /\ qml = NoneV
    /\ XSDtypes = EmptyMap
    /\ PYtypes = EmptyMap
    /\ call \in {Pending(fn, k, v) :
                    fn \in {"ignore_null", "Rounder"}, k \in PreKeys, v \in PreValues(MaxArrivals)}

PreNext == CallIgnoreNull \/ CallRounder

PreSpec == PreInit /\ [][PreNext]_vars

(***************************************************************************)
(* Claims about the preprocessors (checked under PreSpec)                  *)
(***************************************************************************)

\* C1: for every key, ignore_null and Rounder.__call__ called with
\* (k, None) return None and raise nothing.
C1_NullReturnsNull ==
    (call.op \in {"ignore_null", "Rounder"} /\ call.v = NoneV)
        => (call.exc = "" /\ call.ret = NoneV)

\* C7: for every waveformID node, with or without a '#text' entry,
\* Rounder.__call__ returns (key, node) with no '#text' entry and every
\* other entry unchanged, and raises nothing.
C7_WaveformTextDropped ==
    (call.op = "Rounder" /\ call.k = "waveformID" /\ call.v.t = "map")
        => /\ call.exc = ""
           /\ call.ret.t = "tuple"
           /\ call.ret.k = call.k
           /\ call.ret.v.t = "map"
           /\ DOMAIN call.ret.v.f = DOMAIN call.v.f \ {"#text"}
           /\ \A g \in DOMAIN call.ret.v.f : call.ret.v.f[g] = call.v.f[g]

\* the rounding table as the claim lists it: whether sub-field g is listed
\* under key k, and its decimal places when it is
C8Listed(k, g) ==
    \/ k = "depth" /\ g \in {"value", "uncertainty"}
    \/ k \in {"latitude", "longitude", "time"} /\ g = "uncertainty"
    \/ k = "originUncertainty"
         /\ g \in {"horizontalUncertainty", "minHorizontalUncertainty",
                   "maxHorizontalUncertainty"}
    \/ k = "mag" /\ g \in {"value", "uncertainty"}
C8Places(k, g) ==
    CASE k = "depth" /\ g \in {"value", "uncertainty"} -> 0 - 2
      [] k \in {"latitude", "longitude"} /\ g = "uncertainty" -> 4
      [] k = "time" /\ g = "uncertainty" -> 6
      [] k = "originUncertainty"
           /\ g \in {"horizontalUncertainty", "minHorizontalUncertainty",
                     "maxHorizontalUncertainty"} -> 0 - 1
      [] k = "mag" /\ g = "value" -> 1
      [] k = "mag" /\ g = "uncertainty" -> 2
C8Keys == {"depth", "latitude", "longitude", "time", "originUncertainty", "mag"}

\* a number: an int, a float, or a bool (the int 1 or 0); a finite one
IsNumber(x) == x.t \in {"int", "bool", "float"}
IsNum(x) == x.t \in {"int", "bool"} \/ (x.t = "float" /\ x.sp \in {"", "-0"})
ExpOf(x) == IF x.t = "float" THEN x.e ELSE 0
ManOf(x) ==
    IF x.t = "int" THEN x.i
    ELSE IF x.t = "bool" THEN IF x.b THEN 1 ELSE 0
    ELSE x.m

\* y is x rounded to n decimal places: a number of the same type (an int
\* for a bool), a multiple of 10^-n, at most half of 10^-n away from x;
\* an infinity or a nan is its own rounding
IsRounded(x, y, n) ==
    /\ IsNumber(x)
    /\ y.t = (IF x.t = "bool" THEN "int" ELSE x.t)
    /\ IF ~IsNum(x) THEN y = x
       ELSE /\ IsNum(y)
            /\ LET s == Min2(Min2(ExpOf(x), ExpOf(y)), 0 - n)
                   X == ManOf(x) * Pow10(ExpOf(x) - s)
                   Y == ManOf(y) * Pow10(ExpOf(y) - s)
                   U == Pow10(0 - n - s)
               IN  Y % U = 0 /\ 2 * Abs(Y - X) <= U

\* the case of the claim: a key of the table with a node
C8Case ==
    /\ call.op = "Rounder"
    /\ call.k \in C8Keys
    /\ call.v.t = "map"

\* the node came back under its key with the same sub-fields
C8Returned ==
    /\ call.exc = ""
    /\ call.ret.t = "tuple"
    /\ call.ret.k = call.k
    /\ call.ret.v.t = "map"
    /\ DOMAIN call.ret.v.f = DOMAIN call.v.f

\* the depth example of the claim
C8DepthExample ==
    (call.k = "depth"
       /\ call.v = Map([value |-> Float(123456, 0 - 2), uncertainty |-> Float(789, 0 - 1)]))
     => call.ret.v = Map([value |-> Float(12, 2), uncertainty |-> Float(1, 2)])

\* a listed sub-field holds a value round() does not take
C8Unroundable ==
    \E g \in DOMAIN call.v.f :
        C8Listed(call.k, g) /\ ~IsNumber(call.v.f[g]) /\ call.v.f[g] # NoneV

\* key and not skipped, with a text value
C6Case ==
    /\ call.op = "SimpleTyping"
    /\ ~StartsWith(call.k, <<"@">>)
    /\ call.k # <<"#", "t", "e", "x", "t">>
    /\ call.k \notin skip_keys
    /\ call.v.t = "str"

\* a text without its sign, and the sign
C6Signless(b) == IF Len(b) >= 1 /\ b[1] \in {"+", "-"} THEN SubSeq(b, 2, Len(b)) ELSE b
C6Sign(b) == IF Len(b) >= 1 /\ b[1] = "-" THEN 0 - 1 ELSE 1
\* a run of digits; with sep = {"_"} single underscores may separate the
\* digits, with sep = {} nothing may
C6IsRun(r, sep) ==
    /\ Len(r) >= 1
    /\ \A i \in 1..Len(r) :
          \/ r[i] \in Digits
          \/ /\ r[i] \in sep /\ 1 < i /\ i < Len(r)
             /\ r[i - 1] \in Digits /\ r[i + 1] \in Digits
\* the places of a character in a text, and the text before and after one
C6Places(u, chars) == {i \in 1..Len(u) : u[i] \in chars}
C6Before(u, i) == SubSeq(u, 1, i - 1)
C6After(u, i) == SubSeq(u, i + 1, Len(u))
\* a mantissa: a run, or a point with a run before it, after it, or both
C6IsMantissa(m, sep) ==
    IF C6Places(m, {"."}) = {} THEN C6IsRun(m, sep)
    ELSE \E d \in C6Places(m, {"."}) :
            /\ Len(m) >= 2
            /\ Len(C6Before(m, d)) = 0 \/ C6IsRun(C6Before(m, d), sep)
            /\ Len(C6After(m, d)) = 0 \/ C6IsRun(C6After(m, d), sep)
\* a decimal/exponent number without its sign: a mantissa, then possibly
\* an exponent marker and an optionally signed run
C6IsNumeral(u, sep) ==
    IF C6Places(u, {"e", "E"}) = {} THEN C6IsMantissa(u, sep)
    ELSE \E x \in C6Places(u, {"e", "E"}) :
            /\ C6IsMantissa(C6Before(u, x), sep)
            /\ C6IsRun(C6Signless(C6After(u, x)), sep)

\* the digits of a text as numbers
C6DigitsOf(r) == [i \in 1..Len(SelectSeq(r, IsDigitChar)) |->
                     DigitVal(SelectSeq(r, IsDigitChar)[i])]
\* ds from its first place in nz on, and up to its last place in nz
C6From(ds, nz) == IF nz = {} THEN << >>
                  ELSE SubSeq(ds, CHOOSE i \in nz : \A j \in nz : i <= j, Len(ds))
C6Upto(ds, nz) == IF nz = {} THEN << >>
                  ELSE SubSeq(ds, 1, CHOOSE i \in nz : \A j \in nz : i >= j)
\* digits without the zeros before the first that is not 0, and without
\* the zeros after the last
C6Significant(ds) == C6From(ds, {i \in 1..Len(ds) : ds[i] # 0})
C6Core(ds) == C6Upto(ds, {i \in 1..Len(ds) : ds[i] # 0})
\* the number with the digits ds: each digit times the power of ten of its
\* place
RECURSIVE C6PlaceSum(_, _)
C6PlaceSum(ds, i) ==
    IF i > Len(ds) THEN 0 ELSE ds[i] * Pow10(Len(ds) - i) + C6PlaceSum(ds, i + 1)
C6Number(ds) == C6PlaceSum(ds, 1)
\* y is the integer the signed run b stands for (by its size alone when it
\* has more than nine digits)
C6WithDigits(y, sg, ds) ==
    /\ y.t = "int"
    /\ IF Len(ds) <= 9 THEN y.i = sg * C6Number(ds)
       ELSE y.i * sg >= Pow10(9)
C6IsInteger(y, b) ==
    \E ds \in {C6Significant(C6DigitsOf(C6Signless(b)))} : C6WithDigits(y, C6Sign(b), ds)

\* the parts of a numeral u without sign: its mantissa, its exponent, and
\* the digits after its point
C6Marker(u) == C6Places(u, {"e", "E"})
C6Mantissa(u) == IF C6Marker(u) = {} THEN u ELSE C6Before(u, CHOOSE x \in C6Marker(u) : TRUE)
C6ExponentPart(u) == C6After(u, CHOOSE x \in C6Marker(u) : TRUE)
C6Exponent(u) ==
    IF C6Marker(u) = {} THEN 0
    ELSE C6Sign(C6ExponentPart(u))
           * C6Number(C6Significant(C6DigitsOf(C6ExponentPart(u))))
C6Fraction(m) ==
    IF C6Places(m, {"."}) = {} THEN << >> ELSE C6After(m, CHOOSE d \in C6Places(m, {"."}) : TRUE)
\* the place of the last digit of the mantissa of u: its power of ten
C6LastPlace(u) == C6Exponent(u) - Len(C6DigitsOf(C6Fraction(C6Mantissa(u))))

\* the digits ds are, place by place from the first, below the digits h
\* (zeros following the last of either)
C6DigitAt(ds, i) == IF i <= Len(ds) THEN ds[i] ELSE 0
C6Below(ds, h) ==
    \E i \in 1..(Len(ds) + Len(h)) :
        /\ C6DigitAt(ds, i) < C6DigitAt(h, i)
        /\ \A j \in 1..(i - 1) : C6DigitAt(ds, j) = C6DigitAt(h, j)
\* the first digits of 2^1024 - 2^970 = 1.797...e308, half-way from the
\* largest double to the next power of two, rounded up; and those of
\* 2^-1075 = 2.470...e-324, half the smallest double, rounded up
C6Beyond == <<1, 7, 9, 7, 6, 9, 3, 1, 3, 4, 8, 6, 2, 3, 1, 5, 8, 0, 8>>
C6Beneath == <<2, 4, 7, 0, 3, 2, 8, 2, 2, 9, 2, 0, 6, 2, 3, 2, 7, 2, 1>>

\* the decimal n * 10^q, -1074 <= q < 0, is at most 2^-1075 from k * 2^-1074:
\* 2 * |n * 2^(1074 + q) - k * 5^-q| <= 5^-q
C6Deviation(k, n, q) ==
    CHOOSE d \in {BigAbsDiff(a, b) :
                     a \in {BigShl(BigOf(n), 1074 + q)},
                     b \in {BigTimesPow5(k, 0 - q)}} : TRUE
C6ReadsAs(k, n, q) ==
    BigCmp(BigMulSmall(C6Deviation(k, n, q), 2), BigPow5(0 - q)) <= 0

\* the decimal m * 10^e is the one a double k * 2^-1074 is written as: none
\* with fewer digits is read as that double, and none with as many that is
\* read as it is nearer to it (the decimals read as it lie within 2^-1074,
\* less than 5 units of 10^e, of each other)
C6Names(m, e, k) ==
    /\ m % 10 # 0
    /\ C6ReadsAs(k, m, e)
    /\ \A c \in {m \div 10, m \div 10 + 1} : c >= 1 => ~C6ReadsAs(k, c, e + 1)
    /\ \A c \in (m - 5)..(m + 5) :
          (c >= 1 /\ C6ReadsAs(k, c, e))
             => BigCmp(C6Deviation(k, m, e), C6Deviation(k, c, e)) <= 0

\* y is the real that a numeral of sign sg stands for whose digits, from
\* the first to the last that is not 0, are ds, the last at place q: the
\* double nearest to ds * 10^q.  With E the place of the first digit: a zero
\* when the numeral has no such digit or its value is at most 2^-1075; an
\* infinity from 2^1024 - 2^970 on; from 1e-314 on the double that the
\* decimal ds * 10^q names; and below 1e-314, where the doubles are 2^-1074
\* apart and no longer tell nine digits apart, the double k * 2^-1074 that
\* is at most 2^-1075 from the numeral, y being the decimal it is written as
C6Nearest(y, sg, ds, q, E) ==
    IF Len(ds) = 0 \/ E < 0 - 324 \/ (E = 0 - 324 /\ C6Below(ds, C6Beneath))
    THEN y = (IF sg < 0 THEN FloatSpecial("-0") ELSE Float(0, 0))
    ELSE IF E > 308 \/ (E = 308 /\ ~C6Below(ds, C6Beyond))
    THEN y = FloatSpecial(IF sg < 0 THEN "-inf" ELSE "inf")
    ELSE IF E >= 0 - 314
    THEN y = Float(sg * C6Number(ds), q)
    ELSE /\ y.t = "float" /\ y.sp = "" /\ y.m * sg > 0 /\ y.e < 0
         /\ \E k \in {SubnormalMultiple(Abs(y.m), y.e)} :
               /\ C6ReadsAs(k, C6Number(ds), q)
               /\ C6Names(Abs(y.m), y.e, k)
C6RealOf(y, sg, ds, last) ==
    \E core \in {C6Core(C6Significant(ds))} :
        C6Nearest(y, sg, core,
                  last + (Len(C6Significant(ds)) - Len(core)),
                  last + Len(C6Significant(ds)) - 1)
C6IsReal(y, b) ==
    \E ds \in {C6DigitsOf(C6Mantissa(C6Signless(b)))} :
        C6RealOf(y, C6Sign(b), ds, C6LastPlace(C6Signless(b)))

\* C6 as stated: the result is the integer when the whole text is an
\* optionally signed run of digits, the real when the whole text is a
\* decimal/exponent number that is no integer literal, and the unchanged
\* text otherwise; the call raises nothing.
C6_WholeTextTyping ==
    C6Case =>
        /\ call.exc = ""
        /\ call.ret.t = "tuple" /\ call.ret.k = call.k
        /\ IF C6IsRun(C6Signless(call.v.s), {})
           THEN C6IsInteger(call.ret.v, call.v.s)
           ELSE IF C6IsNumeral(C6Signless(call.v.s), {})
           THEN C6IsReal(call.ret.v, call.v.s)
           ELSE call.ret.v = call.v

\* whitespace: the six of ASCII, the next-line and the no-break space, and
\* the spaces and the two line ends beyond U+00FF
C6Whitespace ==
    {" ", "\t", "\n", "\r", "\f", ""}
      \cup {"U+0085", "U+00A0"}
      \cup {"U+1680", "U+202F", "U+205F", "U+3000", "U+2028", "U+2029"}
      \cup {"U+2000", "U+2001", "U+2002", "U+2003", "U+2004", "U+2005",
             "U+2006", "U+2007", "U+2008", "U+2009", "U+200A"}
\* the text without the whitespace after it
C6Body(s) == C6Upto(s, {i \in 1..Len(s) : s[i] \notin C6Whitespace})

\* C6 amended: with the whitespace after the text set aside (the space,
\* \t, \n, \r, \f, \v and the Unicode spaces) and single underscores
\* allowed between digits (the decimal digits of any script), the result
\* is the integer when the text is an optionally signed run of at most
\* 4300 digits; the real (the double nearest to the number: an infinity
\* beyond the largest double, a zero below the smallest) when the text is a
\* decimal/exponent number that is no such integer, a run of more than
\* 4300 digits included; and the unchanged text otherwise (a text with
\* whitespace before it, "inf" and "nan" too); the call raises nothing.
C6_TypingUpToTrailingSpace ==
    C6Case =>
        /\ call.exc = ""
        /\ call.ret.t = "tuple" /\ call.ret.k = call.k
        /\ \E b \in {C6Body(call.v.s)} :
              IF C6IsRun(C6Signless(b), {"_"})
                   /\ Len(C6DigitsOf(b)) <= 4300
              THEN C6IsInteger(call.ret.v, b)
              ELSE IF C6IsNumeral(C6Signless(b), {"_"})
              THEN C6IsReal(call.ret.v, b)
              ELSE call.ret.v = call.v

\* the text "1.1" followed by a no-break space has been typed: the integer
\* pattern matched its prefix "1", int() rejected the text, and the real
\* pattern and float() took it, trailing whitespace and all
C6_Witness ==
    /\ C6Case
    /\ call.v.s = <<"1", ".", "1", "U+00A0">>
    /\ call.ret = Pair(call.k, Float(11, 0 - 1))

(***************************************************************************)
(* TypeExtractor                                                           *)
(***************************************************************************)
\* TypeExtractor.delim
delim == "|"
\* the characters of "bed:", the argument of the lstrip calls
NsChars == {"b", "e", "d", ":"}
NsPrefix == <<"b", "e", "d", ":">>

K_name == <<"@", "n", "a", "m", "e">>
K_type == <<"@", "t", "y", "p", "e">>
K_base == <<"@", "b", "a", "s", "e">>

\* XSTYPES_PYTHON, the Python types by name
XSTYPES_PYTHON ==
    (<<"x", "s", ":", "s", "t", "r", "i", "n", "g">> :> "str") @@ (<<"x", "s", ":", "i", "n", "t", "e", "g", "e", "r">> :> "int")
      @@ (<<"x", "s", ":", "d", "o", "u", "b", "l", "e">> :> "float") @@ (<<"x", "s", ":", "b", "o", "o", "l", "e", "a", "n">> :> "bool")
      @@ (<<"x", "s", ":", "d", "a", "t", "e", "T", "i", "m", "e">> :> "str") @@ (<<"x", "s", ":", "a", "n", "y", "U", "R", "I">> :> "str")

\* d[k] = v on a flat map
MapPut(m, k, v) == [x \in DOMAIN m \cup {k} |-> IF x = k THEN v ELSE m[x]]

\* k in node, node[k] for a dict node
Has(node, k) == \E i \in 1..Len(node.items) : node.items[i].k = k
At(node, k) ==
    node.items[CHOOSE i \in 1..Len(node.items) : node.items[i].k = k].v

\* TypeExtractor.flatten(node, name), XSDtypes being passed and returned
RECURSIVE flatten(_, _, _)
RECURSIVE flattenEach(_, _, _, _)
RECURSIVE flattenItems(_, _, _, _)
flatten(node, name, xsd) ==
    IF node.t = "dict" THEN
        LET name1 == IF Has(node, K_name)
                     THEN Strip(name \o <<delim>> \o At(node, K_name).s, {delim})
                     ELSE name
            xsd1 == IF Has(node, K_name) /\ Has(node, K_type)
                    THEN MapPut(xsd, name1, At(node, K_type).s)
                    ELSE xsd
            xsd2 == IF Has(node, K_base)
                    THEN MapPut(xsd1, name1, At(node, K_base).s)
                    ELSE xsd1
            IN  flattenItems(node.items, 1, name1, xsd2)
    ELSE IF node.t = "list" THEN flattenEach(node.items, 1, name, xsd)
    ELSE xsd
flattenItems(items, i, name, xsd) ==
    IF i > Len(items) THEN xsd
    ELSE IF StartsWith(items[i].k, <<"@">>) THEN flattenItems(items, i + 1, name, xsd)
    ELSE flattenItems(items, i + 1, name, flatten(items[i].v, name, xsd))
flattenEach(nodes, i, name, xsd) ==
    IF i > Len(nodes) THEN xsd
    ELSE flattenEach(nodes, i + 1, name, flatten(nodes[i], name, xsd))

\* TypeExtractor._gettype(key): [exc, ret].  stack holds the keys of the
\* calls in progress: a call with a key that is already in progress
\* repeats itself without end, and Python ends it with RecursionError.
\* On lines 163-167 the result of the recursive call is overwritten by
\* "type_ = value": the branch returns the value it looked up
RECURSIVE gettype(_, _, _)
gettype(xsd, key, stack) ==
    IF key \in stack THEN [exc |-> "RecursionError", ret |-> NoneV]
    ELSE
    LET kp == Split(key, delim)
        st == stack \cup {key}
        rewritten(prefix, rest) ==
            gettype(xsd, Join(delim, <<LStrip(xsd[prefix], NsChars)>> \o rest), st)
    IN  IF Len(kp) <= 2 THEN
            IF key \in DOMAIN xsd THEN
                IF StartsWith(xsd[key], NsPrefix) THEN
                    IF LStrip(xsd[key], NsChars) \notin DOMAIN xsd
                    THEN [exc |-> "KeyError", ret |-> NoneV]
                    ELSE LET value == xsd[LStrip(xsd[key], NsChars)]
                             sub == gettype(xsd, value, st)
                         IN  IF sub.exc # "" THEN sub
                             ELSE [exc |-> "", ret |-> Str(value)]
                ELSE [exc |-> "", ret |-> Str(xsd[key])]
            ELSE IF kp[1] \in DOMAIN xsd THEN rewritten(kp[1], Tail(kp))
            ELSE [exc |-> "", ret |-> NoneV]
        ELSE
            IF kp[1] \in DOMAIN xsd THEN rewritten(kp[1], Tail(kp))
            ELSE IF Join(delim, SubSeq(kp, 1, 2)) \in DOMAIN xsd
            THEN rewritten(Join(delim, SubSeq(kp, 1, 2)), SubSeq(kp, 3, Len(kp)))
            ELSE [exc |-> "", ret |-> NoneV]

TypeExtractor_gettype(xsd, key) == gettype(xsd, key, {})

\* TypeExtractor.gentypes(node, name, realname), PYtypes being passed and
\* returned: [exc, py].  At a leaf whose type resolves to a text, line 142
\* reads the global XSTYPES, a name the module never defines (its table is
\* XSTYPES_PYTHON): NameError, and lines 143-150 are never reached
RECURSIVE gentypes(_, _, _, _, _)
RECURSIVE gentypesItems(_, _, _, _, _, _)
RECURSIVE gentypesList(_, _, _, _, _, _)
gentypes(node, name, realname, xsd, py) ==
    IF node.t = "dict" THEN gentypesItems(node.items, 1, name, realname, xsd, py)
    ELSE IF node.t = "list" THEN gentypesList(node.items, 1, name, realname, xsd, py)
    ELSE LET type_ == TypeExtractor_gettype(xsd, name)
         IN  IF type_.exc # "" THEN [exc |-> type_.exc, py |-> py]
             ELSE IF type_.ret.t = "str" THEN [exc |-> "NameError", py |-> py]
             ELSE [exc |-> "", py |-> py]
gentypesItems(items, i, name, realname, xsd, py) ==
    IF i > Len(items) THEN [exc |-> "", py |-> py]
    ELSE LET n == items[i].k
             keyname == Strip(Join(delim, <<name, LStrip(n, {"@"})>>), {delim})
             rname == Strip(Join(delim, <<realname, n>>), {delim})
             r == gentypes(items[i].v, keyname, rname, xsd, py)
         IN  IF r.exc # "" THEN r
             ELSE gentypesItems(items, i + 1, name, realname, xsd, r.py)
gentypesList(elems, i, name, realname, xsd, py) ==
    IF i > Len(elems) THEN [exc |-> "", py |-> py]
    ELSE LET r == gentypes(elems[i], name, realname, xsd, py)
         IN  IF r.exc # "" THEN r
             ELSE gentypesList(elems, i + 1, name, realname, xsd, r.py)

\* TypeExtractor.entype(node, name), the node being changed in place:
\* [exc, node].  A list element is handed to entype itself, which does
\* nothing to a node that is no dict; node[n] = type_(node[n]) is not
\* guarded, so a text the type rejects raises out of the walk
RECURSIVE entype(_, _, _)
RECURSIVE entypeItems(_, _, _, _)
RECURSIVE entypeList(_, _, _, _)
entype(node, name, py) ==
    IF node.t = "dict"
    THEN LET r == entypeItems(node.items, 1, name, py)
         IN  [exc |-> r.exc, node |-> Dict(r.items)]
    ELSE [exc |-> "", node |-> node]
entypeItems(items, i, name, py) ==
    IF i > Len(items) THEN [exc |-> "", items |-> items]
    ELSE LET n == items[i].k
             v == items[i].v
             rname == Strip(Join(delim, <<name, n>>), {delim})
             put(x) == [items EXCEPT ![i] = Item(n, x)]
         IN  IF v.t = "list" THEN
                 LET r == entypeList(v.items, 1, rname, py)
                 IN  IF r.exc # "" THEN [exc |-> r.exc, items |-> put(List(r.items))]
                     ELSE entypeItems(put(List(r.items)), i + 1, name, py)
             ELSE IF v.t = "dict" THEN
                 LET r == entype(v, rname, py)
                 IN  IF r.exc # "" THEN [exc |-> r.exc, items |-> put(r.node)]
                     ELSE entypeItems(put(r.node), i + 1, name, py)
             ELSE IF rname \in DOMAIN py THEN
                 LET c == Construct(py[rname], v.s)
                 IN  IF c.exc # "" THEN [exc |-> c.exc, items |-> items]
                     ELSE entypeItems(put(c.v), i + 1, name, py)
             ELSE entypeItems(items, i + 1, name, py)
entypeList(elems, i, rname, py) ==
    IF i > Len(elems) THEN [exc |-> "", items |-> elems]
    ELSE LET r == entype(elems[i], rname, py)
         IN  IF r.exc # "" THEN [exc |-> r.exc, items |-> [elems EXCEPT ![i] = r.node]]
             ELSE entypeList([elems EXCEPT ![i] = r.node], i + 1, rname, py)

\* TypeExtractor.extract_typed(): [exc, node, py]
extract_entype(g, e) == [exc |-> e.exc, node |-> e.node, py |-> g.py]
extract_gentypes(node, g) ==
    IF g.exc # "" THEN [exc |-> g.exc, node |-> node, py |-> g.py]
    ELSE extract_entype(g, entype(node, <<>>, g.py))
extract_typed(node, xsd, py) ==
    extract_gentypes(node, gentypes(node, <<>>, <<>>, xsd, py))

(***************************************************************************)
(* The schema-driven route: a TypeExtractor is constructed on a data tree, *)
(* a schema description is flattened into XSDtypes, and then a type is     *)
(* resolved, or the type map generated, or the tree extracted.             *)
(***************************************************************************)
\* schema nodes: an element with a declared type, a named type with a base
\* on a nested node, a named type holding an element
Element(name, type_) == Dict(<<Item(K_name, Str(name)), Item(K_type, Str(type_))>>)
SimpleType(name, base) ==
    Dict(<<Item(K_name, Str(name)),
           Item(<<"x", "s", ":", "r", "e", "s", "t", "r", "i", "c", "t", "i", "o", "n">>, Dict(<<Item(K_base, Str(base))>>))>>)
ComplexType(name, child) ==
    Dict(<<Item(K_name, Str(name)), Item(<<"x", "s", ":", "s", "e", "q", "u", "e", "n", "c", "e">>, List(<<child>>))>>)

TypeTokens == {<<"b", "e", "d", ":", "X">>, <<"b", "e", "d", ":", "Y">>, <<"b", "e", "d", ":", "d", "X">>, <<"x", "s", ":", "d", "o", "u", "b", "l", "e">>}
DeclNodes ==
    {Element(<<"a">>, ty) : ty \in TypeTokens}
      \cup {SimpleType(n, ty) : n \in {<<"X">>, <<"Y">>}, ty \in TypeTokens}
      \cup {ComplexType(<<"X">>, Element(<<"t">>, ty)) : ty \in TypeTokens}
MaxDecls == 3
Schemas(len) ==
    {Dict(<<Item(<<"x", "s", ":", "s", "c", "h", "e", "m", "a">>, List(l))>>) :
        l \in UNION {[1..n -> DeclNodes] : n \in 1..len}}

\* data trees: one member, an element or an attribute, holding a text, a
\* list of texts, a dict or a list of dicts
MaxElems == 2
MembersOf(leaves) ==
    leaves
      \cup {List(l) : l \in UNION {[1..n -> leaves] : n \in 1..MaxElems}}
      \cup {Dict(<<Item(<<"t">>, v)>>) : v \in leaves}
      \cup {List(<<Dict(<<Item(<<"t">>, v)>>)>>) : v \in leaves}
Trees(leaves) == {Dict(<<Item(k, v)>>) : k \in {<<"a">>, <<"@", "a">>}, v \in MembersOf(leaves)}

QueryKeys == {<<"a">>, <<"a", "|", "t">>, <<"a", "|", "t", "|", "t">>, <<"X">>, <<"X", "|", "t">>, <<"X", "|", "t", "|", "t">>, <<"Y">>}

Init ==
    /\ qml \in Trees({Str(<<"1">>)})
    /\ XSDtypes = EmptyMap
    /\ PYtypes = EmptyMap
    /\ call = Idle

Flatten ==
    /\ call = Idle
    /\ XSDtypes = EmptyMap
    /\ \E schema \in Schemas(MaxDecls) : XSDtypes' = flatten(schema, <<>>, XSDtypes)
    /\ UNCHANGED <<qml, PYtypes, call>>

GetType ==
    /\ call = Idle
    /\ \E key \in QueryKeys :
          call' = [op |-> "gettype", key |-> key,
                   exc |-> TypeExtractor_gettype(XSDtypes, key).exc,
                   ret |-> TypeExtractor_gettype(XSDtypes, key).ret]
    /\ UNCHANGED <<qml, XSDtypes, PYtypes>>

Gentypes ==
    /\ call = Idle
    /\ LET r == gentypes(qml, <<>>, <<>>, XSDtypes, PYtypes)
       IN  /\ PYtypes' = r.py
           /\ call' = [op |-> "gentypes", node |-> qml, exc |-> r.exc, ret |-> NoneV]
    /\ UNCHANGED <<qml, XSDtypes>>

ExtractTyped ==
    /\ call = Idle
    /\ \E r \in {extract_typed(qml, XSDtypes, PYtypes)} :
          /\ PYtypes' = r.py
          /\ qml' = r.node
          /\ call' = [op |-> "extract_typed", node |-> qml, exc |-> r.exc,
                      ret |-> IF r.exc = "" THEN r.node ELSE NoneV]
    /\ UNCHANGED XSDtypes

Next == Flatten \/ GetType \/ Gentypes \/ ExtractTyped

Spec == Init /\ [][Next]_vars

(***************************************************************************)
(* The coercer on a Primitive Type Map.  gentypes is the only writer of    *)
(* PYtypes in the module and never gets to write (line 142), so the map    *)
(* entype works with is one its caller stored in the attribute.            *)
(***************************************************************************)
PyTypeNames == {"int", "float"}
RealPaths == {<<"a">>, <<"@", "a">>, <<"a", "|", "t">>, <<"b">>}
PyMaps(paths) == UNION {[d -> PyTypeNames] : d \in SUBSET paths}
Leaves == {Str(<<"1">>), Str(<<"x">>), Str(<<"i", "n", "f">>)}
CoerceTrees(leaves) ==
    {Dict(<<Item(k, v)>>) : k \in {<<"a">>, <<"@", "a">>}, v \in MembersOf(leaves)}
      \cup {Dict(<<Item(<<"a">>, v), Item(<<"b">>, w)>>) : v \in MembersOf(leaves), w \in leaves}

CoerceInit ==
    /\ qml \in CoerceTrees(Leaves)
    /\ XSDtypes = EmptyMap
    /\ PYtypes \in PyMaps(RealPaths)
    /\ call = Idle

Entype ==
    /\ call = Idle
    /\ LET r == entype(qml, <<>>, PYtypes)
       IN  /\ qml' = r.node
           /\ call' = [op |-> "entype", node |-> qml, exc |-> r.exc,
                       ret |-> IF r.exc = "" THEN r.node ELSE NoneV]
    /\ UNCHANGED <<XSDtypes, PYtypes>>

CoerceNext == Entype

CoerceSpec == CoerceInit /\ [][CoerceNext]_vars

(***************************************************************************)
(* Claims about the Type Resolver and the Type Map Generator (checked      *)
(* under Spec)                                                             *)
(***************************************************************************)
\* the named type a type token refers to: the token without its namespace
\* marker "bed:"
RefName(token) ==
    IF StartsWith(token, NsPrefix) THEN SubSeq(token, Len(NsPrefix) + 1, Len(token))
    ELSE token

IsPrimitive(token) == token \in DOMAIN XSTYPES_PYTHON

\* the references of a Schema Type Map: from the first segment of a key to
\* the name its declared type or base refers to
RefEdges(xsd) == {<<Split(k, delim)[1], RefName(xsd[k])>> : k \in DOMAIN xsd}

RECURSIVE ReachedFrom(_, _)
ReachedFrom(names, edges) ==
    LET more == names \cup {e[2] : e \in {d \in edges : d[1] \in names}}
    IN  IF more = names THEN names ELSE ReachedFrom(more, edges)

\* no name reaches itself by following references
Acyclic(xsd) ==
    \A e \in RefEdges(xsd) : e[1] \notin ReachedFrom({e[2]}, RefEdges(xsd))

\* the resolution the design describes, every reference followed to its
\* end: [ret, refs], refs counting the references followed.  Defined for
\* acyclic maps
RECURSIVE Resolved(_, _, _)
Resolved(xsd, key, refs) ==
    LET kp == Split(key, delim)
        two == Join(delim, SubSeq(kp, 1, 2))
    IN  IF Len(kp) <= 2 /\ key \in DOMAIN xsd THEN
            IF IsPrimitive(xsd[key]) THEN [ret |-> Str(xsd[key]), refs |-> refs]
            ELSE IF StartsWith(xsd[key], NsPrefix)
            THEN Resolved(xsd, RefName(xsd[key]), refs + 1)
            ELSE [ret |-> NoneV, refs |-> refs]
        ELSE IF Len(kp) >= 2 /\ kp[1] \in DOMAIN xsd
        THEN Resolved(xsd, Join(delim, <<RefName(xsd[kp[1]])>> \o Tail(kp)), refs + 1)
        ELSE IF Len(kp) > 2 /\ two \in DOMAIN xsd
        THEN Resolved(xsd, Join(delim, <<RefName(xsd[two])>> \o SubSeq(kp, 3, Len(kp))),
                      refs + 1)
        ELSE [ret |-> NoneV, refs |-> refs]

\* C2: for every acyclic Schema Type Map and every key whose declared type
\* is reached through a chain of one, two or more named-type references
\* ending in a primitive token, _gettype returns that primitive token.
C2_ChainResolvesToPrimitive ==
    (/\ call.op = "gettype"
     /\ Acyclic(XSDtypes)
     /\ Resolved(XSDtypes, call.key, 0).refs >= 1
     /\ Resolved(XSDtypes, call.key, 0).ret # NoneV)
        => (call.exc = "" /\ call.ret = Resolved(XSDtypes, call.key, 0).ret)

\* a schema-resolution miss: no declaration for the key or a prefix of it,
\* or a declaration that refers to a named type with no entry in the map
NoDeclaration(xsd, key) ==
    LET kp == Split(key, delim)
    IN  /\ key \notin DOMAIN xsd
        /\ kp[1] \notin DOMAIN xsd
        /\ Len(kp) >= 2 => Join(delim, SubSeq(kp, 1, 2)) \notin DOMAIN xsd
DanglingReference(xsd, key) ==
    /\ key \in DOMAIN xsd
    /\ StartsWith(xsd[key], NsPrefix)
    /\ RefName(xsd[key]) \notin DOMAIN xsd

\* C3: for every key and every Schema Type Map, a schema-resolution miss
\* makes _gettype return None; it raises nothing.
C3_MissResolvesToNone ==
    (/\ call.op = "gettype"
     /\ NoDeclaration(XSDtypes, call.key) \/ DanglingReference(XSDtypes, call.key))
        => (call.exc = "" /\ call.ret = NoneV)

\* C10: for every Schema Type Map without a reference cycle and every key,
\* _gettype ends after finitely many recursive steps.
C10_ResolutionTerminates ==
    (call.op = "gettype" /\ Acyclic(XSDtypes)) => call.exc # "RecursionError"

\* the leaves of a data tree with their schema path (attribute markers
\* stripped) and real path; inlist marks a direct element of a sequence
RECURSIVE LeafSet(_, _, _)
LeafSetMember(v, name, rname) ==
    IF v.t = "dict" THEN LeafSet(v, name, rname)
    ELSE IF v.t = "list" THEN
        UNION {IF v.items[j].t = "dict" THEN LeafSet(v.items[j], name, rname)
               ELSE {[name |-> name, rname |-> rname, v |-> v.items[j], inlist |-> TRUE]}
               : j \in 1..Len(v.items)}
    ELSE {[name |-> name, rname |-> rname, v |-> v, inlist |-> FALSE]}
LeafSet(node, name, rname) ==
    UNION {LeafSetMember(node.items[i].v,
                         Strip(Join(delim, <<name, LStrip(node.items[i].k, {"@"})>>), {delim}),
                         Strip(Join(delim, <<rname, node.items[i].k>>), {delim}))
           : i \in 1..Len(node.items)}

\* the type the resolver gives a leaf is a known primitive-type name
ResolvesToPrimitive(xsd, name) ==
    /\ TypeExtractor_gettype(xsd, name).exc = ""
    /\ TypeExtractor_gettype(xsd, name).ret.t = "str"
    /\ IsPrimitive(TypeExtractor_gettype(xsd, name).ret.s)

\* C4: gentypes on a data tree completes without error, and afterwards the
\* Primitive Type Map holds real path -> primitive type for every leaf
\* whose schema path resolves to a known primitive-type name, and no entry
\* for the other leaves.
C4_GentypesRecordsPrimitives ==
    (/\ call.op = "gentypes"
     /\ \A l \in LeafSet(call.node, <<>>, <<>>) :
            TypeExtractor_gettype(XSDtypes, l.name).exc = "")
        => /\ call.exc = ""
           /\ \A l \in LeafSet(call.node, <<>>, <<>>) :
                 IF ResolvesToPrimitive(XSDtypes, l.name)
                 THEN /\ l.rname \in DOMAIN PYtypes
                      /\ PYtypes[l.rname] =
                            XSTYPES_PYTHON[TypeExtractor_gettype(XSDtypes, l.name).ret.s]
                 ELSE l.rname \notin DOMAIN PYtypes

(***************************************************************************)
(* Claims about the coercer (checked under CoerceSpec)                     *)
(***************************************************************************)
\* a leaf with a recorded type; one whose text the type cannot parse
Typed(l, py) == l.rname \in DOMAIN py
Unparseable(l, py) == Typed(l, py) /\ Construct(py[l.rname], l.v.s).exc # ""

\* the tree with every leaf that has a recorded type and a parseable text
\* converted, sequence elements included, and every other leaf as it was
CoercedLeaf(v, rname, py) ==
    IF rname \in DOMAIN py /\ Construct(py[rname], v.s).exc = ""
    THEN Construct(py[rname], v.s).v
    ELSE v
RECURSIVE Coerced(_, _, _)
CoercedMember(v, rname, py) ==
    IF v.t = "dict" THEN Coerced(v, rname, py)
    ELSE IF v.t = "list" THEN
        List([j \in 1..Len(v.items) |->
                IF v.items[j].t = "dict" THEN Coerced(v.items[j], rname, py)
                ELSE CoercedLeaf(v.items[j], rname, py)])
    ELSE CoercedLeaf(v, rname, py)
Coerced(node, name, py) ==
    Dict([i \in 1..Len(node.items) |->
            Item(node.items[i].k,
                 CoercedMember(node.items[i].v,
                               Strip(Join(delim, <<name, node.items[i].k>>), {delim}), py))])

\* C5: when entype meets a leaf whose text cannot be parsed as the type
\* recorded for its real path, it leaves that leaf unchanged and goes on:
\* every other leaf with a recorded type is converted and the call returns
\* the tree without raising.  (Stated for trees whose typed leaves are all
\* members of mappings.)
C5_FailureLeavesTextAndContinues ==
    (/\ call.op = "entype"
     /\ \E l \in LeafSet(call.node, <<>>, <<>>) : Unparseable(l, PYtypes)
     /\ \A l \in LeafSet(call.node, <<>>, <<>>) : Typed(l, PYtypes) => ~l.inlist)
        => /\ call.exc = ""
           /\ call.ret = Coerced(call.node, <<>>, PYtypes)
           /\ qml = Coerced(call.node, <<>>, PYtypes)

\* C9: entype converts every leaf for whose real path a type is recorded,
\* direct elements of a sequence included (under the path of their parent
\* field): afterwards no such leaf holds its unconverted text.  (Stated
\* for trees in which every typed leaf has a parseable text.)
C9_EveryTypedLeafConverted ==
    (/\ call.op = "entype"
     /\ \A l \in LeafSet(call.node, <<>>, <<>>) : ~Unparseable(l, PYtypes))
        => /\ call.exc = ""
           /\ call.ret = Coerced(call.node, <<>>, PYtypes)
           /\ qml = Coerced(call.node, <<>>, PYtypes)

====
